---- MODULE Spec2Model ----
(***************************************************************************)
(* A model of cupyx/scipy/signal/_iir_filter_conversions.py: coefficient   *)
(* normalisation, the zpk and ba frequency/domain transforms and the       *)
(* analog prototype generators.  Every routine of the file is a pure       *)
(* function; the state machine draws an input, applies one routine and     *)
(* records the call (op, inp, out).  A second application to the previous  *)
(* output (renormalisation, a chain of zpk transforms) keeps that output   *)
(* in prev.  The loop of _arc_jac_sn is run one pass per step.             *)
(***************************************************************************)
EXTENDS Integers, Sequences, FiniteSets

VARIABLES op, inp, out, prev

vars == <<op, inp, out, prev>>

(***************************************************************************)
(* Bounds of the model.                                                    *)
(***************************************************************************)
\* longest 1-D numerator drawn for normalize
MaxCols == 3
\* longest denominator drawn for normalize
MaxDen == 3
\* longest coefficient sequence drawn for the ba transforms
MaxBa == 3
\* highest filter order drawn for the analog prototypes
MaxOrder == 5
\* most zeros and most poles drawn for the zpk transforms
MaxZeros == 2
MaxPoles == 2
\* most zpk transforms applied one after the other
MaxChain == 2

(***************************************************************************)
(* Real numbers.  A real is <<n, d, e>>, the value (n/d) * 10^e, kept in   *)
(* lowest terms with n no multiple of 10 and d coprime to 10, so that      *)
(* equal values are equal tuples.  d = 0 is the not-a-number / infinity    *)
(* that a floating-point division by zero produces.                        *)
(***************************************************************************)
NaN == <<0, 0, 0>>
Zero == <<0, 1, 0>>
One == <<1, 1, 0>>
Two == <<2, 1, 0>>

Abs(x) == IF x < 0 THEN -x ELSE x

Min(x, y) == IF x <= y THEN x ELSE y

Max(x, y) == IF x >= y THEN x ELSE y

RECURSIVE Gcd(_, _)
Gcd(x, y) == IF y = 0 THEN x ELSE Gcd(y, x % y)

RECURSIVE Pow10(_)
Pow10(k) == IF k <= 0 THEN 1 ELSE 10 * Pow10(k - 1)

RECURSIVE Strip(_, _, _)
Strip(n, d, e) ==
    IF n % 10 = 0 THEN Strip(n \div 10, d, e + 1)
    ELSE IF d % 2 = 0 THEN Strip(n * 5, d \div 2, e - 1)
    ELSE IF d % 5 = 0 THEN Strip(n * 2, d \div 5, e - 1)
    ELSE <<n, d, e>>

Mk(n, d, e) ==
    IF d = 0 THEN NaN
    ELSE IF n = 0 THEN Zero
    ELSE LET s == IF d < 0 THEN -1 ELSE 1
             g == Gcd(Abs(n), Abs(d))
         IN  Strip((s * n) \div g, (s * d) \div g, e)

IsNaN(x) == x[2] = 0

FromInt(i) == Mk(i, 1, 0)

\* The operators below bind their operands once (x \in {a}) before using
\* them, so that an operand is evaluated a single time.
RNeg(a) ==
    CHOOSE r \in {IF IsNaN(x) THEN NaN ELSE <<-x[1], x[2], x[3]>> : x \in {a}} : TRUE

RAbs(a) ==
    CHOOSE r \in {IF IsNaN(x) THEN NaN ELSE <<Abs(x[1]), x[2], x[3]>> : x \in {a}} : TRUE

RMul(a, b) ==
    CHOOSE r \in {IF IsNaN(x) \/ IsNaN(y) THEN NaN
                  ELSE Mk(x[1] * y[1], x[2] * y[2], x[3] + y[3]) :
                  x \in {a}, y \in {b}} : TRUE

\* x / y; a zero divisor gives the not-a-number / infinity value
RDiv(a, b) ==
    CHOOSE r \in {IF IsNaN(x) \/ IsNaN(y) THEN NaN
                  ELSE Mk(x[1] * y[2], x[2] * y[1], x[3] - y[3]) :
                  x \in {a}, y \in {b}} : TRUE

RAdd(a, b) ==
    CHOOSE r \in {IF IsNaN(x) \/ IsNaN(y) THEN NaN
                  ELSE Mk(x[1] * Pow10(x[3] - Min(x[3], y[3])) * y[2]
                             + y[1] * Pow10(y[3] - Min(x[3], y[3])) * x[2],
                          x[2] * y[2], Min(x[3], y[3])) :
                  x \in {a}, y \in {b}} : TRUE

RSub(x, y) == RAdd(x, RNeg(y))

\* x <= y for reals x, y >= 0; any comparison with not-a-number is false
RLeq(a, b) ==
    \E x \in {a}, y \in {b} :
        IF IsNaN(x) \/ IsNaN(y) THEN FALSE
        ELSE IF x[1] = 0 THEN TRUE
        ELSE IF y[1] = 0 THEN FALSE
        ELSE LET j == x[3] - y[3]
                 l == x[1] * y[2]
                 r == y[1] * x[2]
             IN  IF j >= 0
                 THEN IF j > 9 THEN FALSE ELSE l * Pow10(j) <= r
                 ELSE IF j < -9 THEN TRUE ELSE l <= r * Pow10(-j)

RECURSIVE RPow(_, _)
RPow(x, k) == IF k <= 0 THEN One ELSE RMul(x, RPow(x, k - 1))

(***************************************************************************)
(* Arrays.  An array is [rank, v] with v its rows: a scalar (rank 0) is    *)
(* one row of one real, a 1-D array (rank 1) is one row, a 2-D array       *)
(* (rank 2) is its rows (a list of lists may be ragged).                   *)
(***************************************************************************)
Arr(r, v) == [rank |-> r, v |-> v]

atleast_1d(x) == IF x.rank = 0 THEN Arr(1, x.v) ELSE x

atleast_2d(x) ==
    IF x.rank < 2 THEN Arr(2, x.v) ELSE x

RECURSIVE SeqMax(_)
SeqMax(s) == IF s = <<>> THEN 0 ELSE Max(Head(s), SeqMax(Tail(s)))

Zeros(k) == [i \in 1..k |-> Zero]

SubSeqFrom(s, first) == SubSeq(s, first, Len(s))

Reverse(s) == [i \in 1..Len(s) |-> s[Len(s) + 1 - i]]

(***************************************************************************)
(* _trim_zeros: the two loops count exact zeros from the front and from    *)
(* the back; both are guarded by the test 'f' in trim, as in the source.   *)
(***************************************************************************)
RECURSIVE CountZerosFrom(_)
CountZerosFrom(filt) ==
    IF filt = <<>> THEN 0
    ELSE IF Head(filt) # Zero THEN 0
    ELSE 1 + CountZerosFrom(Tail(filt))

_trim_zeros(filt, trim) ==
    LET first == IF "f" \in trim THEN CountZerosFrom(filt) ELSE 0
        last == IF "f" \in trim
                THEN Len(filt) - CountZerosFrom(Reverse(filt))
                ELSE Len(filt)
    IN  SubSeq(filt, first + 1, last)

(***************************************************************************)
(* _align_nums: an array is returned as it is; a ragged list of numerators *)
(* is padded with zeros on the left to the longest width.                  *)
(***************************************************************************)
IsRagged(rows) == \E i, j \in 1..Len(rows) : Len(rows[i]) # Len(rows[j])

_align_nums(nums) ==
    IF nums.rank = 2 /\ IsRagged(nums.v)
    THEN LET max_width == SeqMax([i \in 1..Len(nums.v) |-> Len(nums.v[i])])
         IN  Arr(2, [i \in 1..Len(nums.v) |->
                        Zeros(max_width - Len(nums.v[i])) \o nums.v[i]])
    ELSE nums

(***************************************************************************)
(* normalize                                                               *)
(***************************************************************************)
\* numpy.allclose(col, 0, atol=1e-14): |x| <= atol + rtol * |0| for every x
Atol == <<1, 1, -14>>

AllcloseZero(col) == \A i \in 1..Len(col) : RLeq(RAbs(col[i]), Atol)

NCols(rows) == IF rows = <<>> THEN 0 ELSE Len(rows[1])

Column(rows, c) == [r \in 1..Len(rows) |-> rows[r][c]]

\* the loop over num.T: consecutive all-zero columns from the first one
RECURSIVE CountZeroColumns(_, _)
CountZeroColumns(rows, c) ==
    IF c > NCols(rows) THEN 0
    ELSE IF AllcloseZero(Column(rows, c)) THEN 1 + CountZeroColumns(rows, c + 1)
    ELSE 0

\* cupy.all(den == 0)
AllZeroNoCheck(den) == FALSE

AllZero(den) == \A i \in 1..Len(den) : den[i] = Zero

\* "Make sure at least one column remains"
ClampDropNone(leading_zeros, ncols) == leading_zeros

ClampDrop(leading_zeros, ncols) ==
    IF leading_zeros = ncols THEN leading_zeros - 1 ELSE leading_zeros

\* the divisor of the normalisation, den[0]
LeadCoef(den) == den[1]

DivAll(s, x) == [i \in 1..Len(s) |-> RDiv(s[i], x)]

\* the numerator whose columns are scanned: num, after num = num / den[0]
ScannedNumeratorUndivided(num, divided) == num

ScannedNumerator(num, divided) == divided

Failed(kind) == [status |-> kind, num |-> Arr(1, <<>>), den |-> <<>>, warned |-> FALSE]

\* the coefficients of a 1-D array
Vec(x) == x.v[1]

NormalizeArrays(num0, den0) ==
        IF den0.rank # 1 THEN Failed("InvalidShape")
        ELSE IF num0.rank > 2 THEN Failed("InvalidShape")
        ELSE IF AllZero(Vec(den0)) THEN Failed("InvalidShape")
        ELSE LET den1 == _trim_zeros(Vec(den0), {"f"})
             IN  IF den1 = <<>> THEN Failed("IndexError")
                 ELSE LET lead == LeadCoef(den1)
                          num1 == [r \in 1..Len(num0.v) |-> DivAll(num0.v[r], lead)]
                          den2 == DivAll(den1, lead)
                          counted == CountZeroColumns(ScannedNumerator(num0.v, num1), 1)
                          leading_zeros == IF counted > 0
                                           THEN ClampDrop(counted, NCols(num1))
                                           ELSE 0
                          num2 == [r \in 1..Len(num1) |->
                                      SubSeqFrom(num1[r], leading_zeros + 1)]
                      IN  [status |-> "ok",
                           num |-> IF Len(num2) = 1 THEN Arr(1, num2) ELSE Arr(2, num2),
                           den |-> den2,
                           warned |-> counted > 0]

normalize(b, a) ==
    CHOOSE r \in {NormalizeArrays(num, den) :
                  num \in {atleast_2d(_align_nums(b))},
                  den \in {atleast_1d(a)}} : TRUE

(***************************************************************************)
(* Inputs of normalize.                                                    *)
(***************************************************************************)
\* 2e-14: above the tolerance, at the tolerance once divided by 2
TwoTol == <<2, 1, -14>>
MinusTwo == <<-2, 1, 0>>

NumVals == {Zero, One, TwoTol}
DenVals == {Zero, One, MinusTwo}

SeqsUpTo(S, k) == UNION {[1..n -> S] : n \in 1..k}

NumInputs ==
    {Arr(0, <<<<x>>>>) : x \in NumVals}
    \cup {Arr(1, <<s>>) : s \in SeqsUpTo(NumVals, MaxCols)}
    \cup {Arr(1, <<<<Zero, Zero, One, Two>>>>)}
    \cup {Arr(2, <<r1, r2>>) : r1 \in SeqsUpTo({Zero, One}, MaxCols - 1),
                               r2 \in SeqsUpTo({Zero, TwoTol}, MaxCols - 1)}
    \cup {Arr(3, <<>>)}

DenInputs ==
    {Arr(0, <<<<x>>>>) : x \in DenVals}
    \cup {Arr(1, <<s>>) : s \in SeqsUpTo(DenVals, MaxDen)}
    \cup {Arr(2, <<<<One>>, <<One>>>>)}

\* inputs of _trim_zeros: a 1-D sequence and the side selector 'f', 'b', 'fb'
TrimInputs == {<<>>} \cup SeqsUpTo(DenVals, MaxDen)

SideInputs == {{"f"}, {"b"}, {"f", "b"}}

(***************************************************************************)
(* Complex numbers <<re, im>> and roots.  A root is base + sgn * sqrt(rad): *)
(* the band transforms leave the complex square root unevaluated; every    *)
(* other root has sgn = 0.                                                 *)
(***************************************************************************)
CZero == <<Zero, Zero>>
COne == <<One, Zero>>
CNaN == <<NaN, NaN>>

CReal(x) == <<x, Zero>>

CImag(y) == <<Zero, y>>

Re(c) == c[1]

CNeg(a) == CHOOSE r \in {<<RNeg(x[1]), RNeg(x[2])>> : x \in {a}} : TRUE

CAdd(a, b) ==
    CHOOSE r \in {<<RAdd(x[1], y[1]), RAdd(x[2], y[2])>> : x \in {a}, y \in {b}} : TRUE

CSub(a, b) ==
    CHOOSE r \in {<<RSub(x[1], y[1]), RSub(x[2], y[2])>> : x \in {a}, y \in {b}} : TRUE

CMul(a, b) ==
    CHOOSE r \in {<<RSub(RMul(x[1], y[1]), RMul(x[2], y[2])),
                    RAdd(RMul(x[1], y[2]), RMul(x[2], y[1]))>> :
                  x \in {a}, y \in {b}} : TRUE

\* x / y; a zero divisor gives not-a-number / infinity
CDiv(a, b) ==
    CHOOSE r \in {IF m = Zero \/ IsNaN(m) THEN CNaN
                  ELSE <<RDiv(RAdd(RMul(x[1], y[1]), RMul(x[2], y[2])), m),
                         RDiv(RSub(RMul(x[2], y[1]), RMul(x[1], y[2])), m)>> :
                  x \in {a}, y \in {b},
                  m \in {RAdd(RMul(b[1], b[1]), RMul(b[2], b[2]))}} : TRUE

Root(b, s, r) == [base |-> b, sgn |-> s, rad |-> r]

Plain(c) == Root(c, 0, CZero)

\* cupy.prod of a sequence of complex numbers
RECURSIVE CProd(_)
CProd(s) == IF s = <<>> THEN COne ELSE CMul(Head(s), CProd(Tail(s)))

Filled(k, c) == [i \in 1..k |-> Plain(c)]

(***************************************************************************)
(* _relative_degree and the zpk transforms                                 *)
(***************************************************************************)
_relative_degree_unchecked(z, p) == [status |-> "ok", value |-> Len(p) - Len(z)]

_relative_degree(z, p) ==
    LET degree == Len(p) - Len(z)
    IN  IF degree < 0
        THEN [status |-> "ImproperTransferFunction", value |-> 0]
        ELSE [status |-> "ok", value |-> degree]

ZpkFailed(kind) == [status |-> kind, z |-> <<>>, p |-> <<>>, k |-> Zero]

Zpk(z, p, k) == [status |-> "ok", z |-> z, p |-> p, k |-> k]

\* (fs2 + r) / (fs2 - r)
Tustin(r, fs2) == CDiv(CAdd(CReal(fs2), r), CSub(CReal(fs2), r))

\* "Any zeros that were at infinity get moved to the Nyquist frequency"
AppendNyquistToPoles(z_z, p_z, degree) ==
    [z |-> z_z, p |-> p_z \o Filled(degree, CReal(RNeg(One)))]

AppendNyquist(z_z, p_z, degree) ==
    [z |-> z_z \o Filled(degree, CReal(RNeg(One))), p |-> p_z]

bilinear_zpk(z, p, k, fs) ==
    LET rd == _relative_degree(z, p)
    IN  IF rd.status # "ok" THEN ZpkFailed(rd.status)
        ELSE LET degree == rd.value
                 fs2 == RMul(Two, fs)
                 z_z == [i \in 1..Len(z) |-> Plain(Tustin(z[i].base, fs2))]
                 p_z == [i \in 1..Len(p) |-> Plain(Tustin(p[i].base, fs2))]
                 zp == AppendNyquist(z_z, p_z, degree)
                 zs == [i \in 1..Len(z) |-> CSub(CReal(fs2), z[i].base)]
                 ps == [i \in 1..Len(p) |-> CSub(CReal(fs2), p[i].base)]
                 k_z == RMul(k, Re(CDiv(CProd(zs), CProd(ps))))
             IN  Zpk(zp.z, zp.p, k_z)

\* k * wo**degree
GainPowerTimes(k, wo, degree) == RMul(k, RMul(wo, FromInt(degree)))

GainPower(k, wo, degree) == RMul(k, RPow(wo, degree))

lp2lp_zpk(z, p, k, wo) ==
    LET rd == _relative_degree(z, p)
    IN  IF rd.status # "ok" THEN ZpkFailed(rd.status)
        ELSE LET degree == rd.value
                 z_lp == [i \in 1..Len(z) |-> Plain(CMul(CReal(wo), z[i].base))]
                 p_lp == [i \in 1..Len(p) |-> Plain(CMul(CReal(wo), p[i].base))]
             IN  Zpk(z_lp, p_lp, GainPower(k, wo, degree))

\* k * real(prod(-z) / prod(-p))
GainInversion(z, p, k) ==
    LET nz == [i \in 1..Len(z) |-> CNeg(z[i].base)]
        np == [i \in 1..Len(p) |-> CNeg(p[i].base)]
    IN  RMul(k, Re(CDiv(CProd(nz), CProd(np))))

lp2hp_zpk(z, p, k, wo) ==
    LET rd == _relative_degree(z, p)
    IN  IF rd.status # "ok" THEN ZpkFailed(rd.status)
        ELSE LET degree == rd.value
                 z_hp == [i \in 1..Len(z) |-> Plain(CDiv(CReal(wo), z[i].base))]
                 p_hp == [i \in 1..Len(p) |-> Plain(CDiv(CReal(wo), p[i].base))]
             IN  Zpk(z_hp \o Filled(degree, CZero), p_hp, GainInversion(z, p, k))

\* concatenate((lp + sqrt(lp**2 - wo**2), lp - sqrt(lp**2 - wo**2)))
SplitRootsPlusOnly(lp, wo) ==
    LET rad(c) == CSub(CMul(c, c), CReal(RMul(wo, wo)))
    IN  [i \in 1..Len(lp) |-> Root(lp[i], 1, rad(lp[i]))]

SplitRoots(lp, wo) ==
    LET rad(c) == CSub(CMul(c, c), CReal(RMul(wo, wo)))
    IN  [i \in 1..Len(lp) |-> Root(lp[i], 1, rad(lp[i]))]
        \o [i \in 1..Len(lp) |-> Root(lp[i], -1, rad(lp[i]))]

lp2bp_zpk(z, p, k, wo, bw) ==
    LET rd == _relative_degree(z, p)
    IN  IF rd.status # "ok" THEN ZpkFailed(rd.status)
        ELSE LET degree == rd.value
                 half(c) == CDiv(CMul(c, CReal(bw)), CReal(Two))
                 z_lp == [i \in 1..Len(z) |-> half(z[i].base)]
                 p_lp == [i \in 1..Len(p) |-> half(p[i].base)]
                 z_bp == SplitRoots(z_lp, wo) \o Filled(degree, CZero)
                 p_bp == SplitRoots(p_lp, wo)
             IN  Zpk(z_bp, p_bp, GainPower(k, bw, degree))

lp2bs_zpk(z, p, k, wo, bw) ==
    LET rd == _relative_degree(z, p)
    IN  IF rd.status # "ok" THEN ZpkFailed(rd.status)
        ELSE LET degree == rd.value
                 inv(c) == CDiv(CReal(RDiv(bw, Two)), c)
                 z_hp == [i \in 1..Len(z) |-> inv(z[i].base)]
                 p_hp == [i \in 1..Len(p) |-> inv(p[i].base)]
                 z_bs == SplitRoots(z_hp, wo)
                            \o Filled(degree, CImag(wo))
                            \o Filled(degree, CImag(RNeg(wo)))
                 p_bs == SplitRoots(p_hp, wo)
             IN  Zpk(z_bs, p_bs, GainInversion(z, p, k))

(***************************************************************************)
(* Inputs of the zpk transforms.                                           *)
(***************************************************************************)
RootVals == {Plain(CZero), Plain(CReal(Two)), Plain(<<RNeg(One), One>>)}
GainVals == {One, MinusTwo}
FreqVals == {One, Two}

SeqsFromZero(S, k) == UNION {[1..n -> S] : n \in 0..k}

ZeroInputs == SeqsFromZero(RootVals, MaxZeros)
PoleInputs == SeqsFromZero(RootVals, MaxPoles)

(***************************************************************************)
(* Transforms applied one after the other.  The first triple has its roots *)
(* at j.  A root of a band transform holds a complex square root that is   *)
(* not computed here: the next transform receives in its place one of the  *)
(* values of SqrtVals, the same for every such root of the call.           *)
(***************************************************************************)
ChainVals == {Plain(CImag(One))}

SqrtVals == {Plain(CImag(One)), Plain(CReal(RNeg(One)))}

\* the array of roots a transform receives from the previous one
Received(roots, v) ==
    [i \in 1..Len(roots) |-> IF roots[i].sgn = 0 THEN roots[i] ELSE v]

(***************************************************************************)
(* bilinear: the triple nested sum over binomial coefficients              *)
(***************************************************************************)
\* binom(n, k) for integers 0 <= k <= n
RECURSIVE comb(_, _)
comb(n, k) == IF k <= 0 THEN 1 ELSE (comb(n, k - 1) * (n - k + 1)) \div k

\* val += ... : the sum of the first n entries of a sequence of terms
RECURSIVE SumTo(_, _)
SumTo(terms, n) == IF n <= 0 THEN Zero ELSE RAdd(SumTo(terms, n - 1), terms[n])

Sum(terms) == CHOOSE r \in {SumTo(t, Len(t)) : t \in {terms}} : TRUE

\* comb(i, k) * comb(M - i, s) * bNi * (-1)**k
BilinearTermUnsigned(M, i, k, s, bNi) ==
    RMul(FromInt(comb(i, k) * comb(M - i, s)), bNi)

BilinearTerm(M, i, k, s, bNi) ==
    RMul(FromInt(comb(i, k) * comb(M - i, s) * (IF k % 2 = 0 THEN 1 ELSE -1)), bNi)

\* one pass of the loop over j: c has degree N, the output has M + 1 entries
BilinearSum(c, N, M, fs) ==
    LET bNi == [ii \in 1..(N + 1) |->
                   RMul(c[N - (ii - 1) + 1], RPow(RMul(Two, fs), ii - 1))]
    IN  [jj \in 1..(M + 1) |->
            Sum([ii \in 1..(N + 1) |->
                Sum([kk \in 1..ii |->
                    Sum([ss \in 1..(M - (ii - 1) + 1) |->
                        IF (kk - 1) + (ss - 1) = jj - 1
                        THEN BilinearTerm(M, ii - 1, kk - 1, ss - 1, bNi[ii])
                        ELSE Zero])])])]

bilinear(b, a, fs) ==
    LET D == Len(a) - 1
        N == Len(b) - 1
        M == Max(N, D)
    IN  CHOOSE r \in {[status |-> "ok", bprime |-> bprime, aprime |-> aprime,
                        result |-> normalize(Arr(1, <<bprime>>), Arr(1, <<aprime>>))] :
                       bprime \in {BilinearSum(b, N, M, fs)},
                       aprime \in {BilinearSum(a, D, M, fs)}} : TRUE

(***************************************************************************)
(* lp2bp and lp2bs: for each j a double sum over binomial coefficients,    *)
(* stored at position Np - j of an array allocated with cupy.empty.        *)
(***************************************************************************)
\* bprime[Np - j] = val
OutputIndexAscending(Np, j) == j

OutputIndex(Np, j) == Np - j

\* the array after the loop over j = 0..Np, vals[j] the val of pass j:
\* position p holds the value of the last j that wrote it (the arbitrary content of cupy.empty, shown as
\* not-a-number, if none did)
StoreAll(Np, vals) ==
    [pos \in 1..(Np + 1) |->
        LET js == {j \in 0..Np : OutputIndex(Np, j) = pos - 1}
        IN  IF js = {} THEN NaN
            ELSE vals[CHOOSE j \in js : \A jj \in js : jj <= j]]

\* how many times each position is written by the loop over j
WriteCounts(Np) ==
    [pos \in 1..(Np + 1) |-> Cardinality({j \in 0..Np : OutputIndex(Np, j) = pos - 1})]

\* comb(i, k) * b[N - i] * (wosq) ** (i - k) / bw ** i
BandPassTerm(i, k, bNi, wosq, bw) ==
    RDiv(RMul(RMul(FromInt(comb(i, k)), bNi), RPow(wosq, i - k)), RPow(bw, i))

\* one of the two loops over j of lp2bp: c has degree N, ma = max(N, D)
BandPassSum(c, N, ma, wo, bw) ==
    LET wosq == RMul(wo, wo)
        val(j) == Sum([ii \in 1..(N + 1) |->
                      Sum([kk \in 1..ii |->
                          IF ma - (ii - 1) + 2 * (kk - 1) = j
                          THEN BandPassTerm(ii - 1, kk - 1, c[N - (ii - 1) + 1], wosq, bw)
                          ELSE Zero])])
    IN  StoreAll(N + ma, [j \in 0..(N + ma) |-> val(j)])

lp2bp(b, a, wo, bw) ==
    LET D == Len(a) - 1
        N == Len(b) - 1
        ma == Max(N, D)
    IN  CHOOSE r \in {[status |-> "ok", bprime |-> bprime, aprime |-> aprime,
                        bwrites |-> WriteCounts(N + ma),
                        awrites |-> WriteCounts(D + ma),
                        result |-> normalize(Arr(1, <<bprime>>), Arr(1, <<aprime>>))] :
                       bprime \in {BandPassSum(b, N, ma, wo, bw)},
                       aprime \in {BandPassSum(a, D, ma, wo, bw)}} : TRUE

\* comb(M - i, k) * b[N - i] * (wosq) ** (M - i - k) * bw ** i
BandStopTerm(M, i, k, bNi, wosq, bw) ==
    RMul(RMul(RMul(FromInt(comb(M - i, k)), bNi), RPow(wosq, M - i - k)), RPow(bw, i))

\* one of the two loops over j of lp2bs: c has degree N, M = max(N, D)
BandStopSum(c, N, M, wo, bw) ==
    LET wosq == RMul(wo, wo)
        val(j) == Sum([ii \in 1..(N + 1) |->
                      Sum([kk \in 1..(M - (ii - 1) + 1) |->
                          IF (ii - 1) + 2 * (kk - 1) = j
                          THEN BandStopTerm(M, ii - 1, kk - 1, c[N - (ii - 1) + 1], wosq, bw)
                          ELSE Zero])])
    IN  StoreAll(M + M, [j \in 0..(M + M) |-> val(j)])

lp2bs(b, a, wo, bw) ==
    LET D == Len(a) - 1
        N == Len(b) - 1
        M == Max(N, D)
    IN  CHOOSE r \in {[status |-> "ok", bprime |-> bprime, aprime |-> aprime,
                        bwrites |-> WriteCounts(M + M),
                        awrites |-> WriteCounts(M + M),
                        result |-> normalize(Arr(1, <<bprime>>), Arr(1, <<aprime>>))] :
                       bprime \in {BandStopSum(b, N, M, wo, bw)},
                       aprime \in {BandStopSum(a, D, M, wo, bw)}} : TRUE

(***************************************************************************)
(* lp2hp.  A coefficient array has a dtype, "int" or "float"; an element   *)
(* stored into an integer array is truncated towards zero.                 *)
(***************************************************************************)
\* int(x) as a real
Truncated(x) ==
    LET mag == IF x[3] >= 0
               THEN (Abs(x[1]) * Pow10(x[3])) \div x[2]
               ELSE Abs(x[1]) \div (x[2] * Pow10(-x[3]))
    IN  FromInt(IF x[1] < 0 THEN -mag ELSE mag)

\* outb[:n] = ... : the value an array of that dtype holds once x is stored
Stored(dtype, x) == IF dtype = "int" THEN Truncated(x) ELSE x

\* wo ** cupy.arange(max(d, n)), or cupy.ones(max(d, n), b.dtype) for wo == 1
PowersOf(wo, len) == [i \in 1..len |-> IF wo # One THEN RPow(wo, i - 1) ELSE One]

\* cupy.resize(c, (len,)); out[n:] = 0.0; out[:n] = c[::-1] * pwo[:n]
ResizedReversed(c, dtype, len, pwo) ==
    [i \in 1..len |->
        IF i <= Len(c) THEN Stored(dtype, RMul(Reverse(c)[i], pwo[i]))
        ELSE Stored(dtype, Zero)]

\* c[::-1] * pwo
ReversedScaled(c, pwo) == [i \in 1..Len(c) |-> RMul(Reverse(c)[i], pwo[i])]

lp2hp(b, bdtype, a, adtype, wo) ==
    LET d == Len(a)
        n == Len(b)
        pwo == PowersOf(wo, Max(d, n))
    IN  CHOOSE r \in {[status |-> "ok", outb |-> outb, outa |-> outa,
                        result |-> normalize(Arr(1, <<outb>>), Arr(1, <<outa>>))] :
                       outb \in {IF d >= n THEN ResizedReversed(b, bdtype, d, pwo)
                                 ELSE ReversedScaled(b, pwo)},
                       outa \in {IF d >= n THEN ReversedScaled(a, pwo)
                                 ELSE ResizedReversed(a, adtype, n, pwo)}} : TRUE

(***************************************************************************)
(* Inputs of the ba transforms.                                            *)
(***************************************************************************)
Half == <<5, 1, -1>>
Three == <<3, 1, 0>>

BaVals == {Zero, One, MinusTwo}
RateVals == {One, Half}

BaInputs == SeqsUpTo(BaVals, MaxBa)
\* numerators of bilinear: nonzero coefficients, and two with a zero
NonzeroBaInputs ==
    SeqsUpTo({One, MinusTwo}, MaxBa) \cup {<<One, Zero>>, <<Zero, One>>}

\* (wo, bw) drawn for lp2bp and lp2bs
BandInputs == {<<Two, One>>, <<Three, Half>>}

\* denominators drawn for lp2bp and lp2bs: leading coefficient 1
MonicBaInputs == {s \in NonzeroBaInputs : s[1] = One}

\* cutoffs and dtypes drawn for lp2hp; the coefficients drawn are integers,
\* which an array of either dtype can hold
CutoffVals == {One, Two, Half}

DtypeVals == {"int", "float"}

(***************************************************************************)
(* Analog prototypes.  A filter order is a real; a valid one is a          *)
(* nonnegative integer.  Values the special functions produce are kept     *)
(* symbolic: a Butterworth pole -exp(j*pi*m/(2N)) is its index m and its   *)
(* angle m/(2N) in units of pi.                                            *)
(***************************************************************************)
\* int(N): truncation towards zero
IntOf(x) ==
    LET mag == IF x[3] >= 0
               THEN (Abs(x[1]) * Pow10(x[3])) \div x[2]
               ELSE Abs(x[1]) \div (x[2] * Pow10(-x[3]))
    IN  IF x[1] < 0 THEN -mag ELSE mag

\* abs(int(N)) != N
BadOrder(N) == FromInt(Abs(IntOf(N))) # N

\* cupy.arange(start, stop, step) for a positive step
RECURSIVE arange(_, _, _)
arange(start, stop, step) ==
    IF start >= stop THEN <<>>
    ELSE <<start>> \o arange(start + step, stop, step)

ProtoFailed(kind) == [status |-> kind, branch |-> "raise", z |-> <<>>, p |-> <<>>, k |-> Zero]

\* m = cupy.arange(-N+1, N, 2)
ButterworthIndicesFromMinusN(N) == arange(-N, N, 2)

ButterworthIndices(N) == arange(-N + 1, N, 2)

buttap(order) ==
    IF BadOrder(order) THEN ProtoFailed("InvalidOrder")
    ELSE LET N == IntOf(order)
             m == ButterworthIndices(N)
         IN  [status |-> "ok", branch |-> "general", z |-> <<>>,
              p |-> [i \in 1..Len(m) |-> [m |-> m[i], angle |-> Mk(m[i], 2 * N, 0)]],
              k |-> One]

\* the index set m of the zeros of cheb2ap
ChebZeroIndicesLikePoles(N) == arange(-N + 1, N, 2)

ChebZeroIndices(N) ==
    IF N % 2 # 0
    THEN arange(-N + 1, 0, 2) \o arange(2, N, 2)
    ELSE arange(-N + 1, N, 2)

\* a zero -conj(1j / sin(m*pi/(2N))) and a pole built from
\* -exp(1j*pi*m/(2N)) are kept as the index m and the angle m/(2N) in
\* units of pi; the gain is kept as the ripple it is computed from
cheb2ap(order, rs) ==
    IF BadOrder(order) THEN ProtoFailed("InvalidOrder")
    ELSE IF IntOf(order) = 0
    THEN [status |-> "ok", branch |-> "N0", z |-> <<>>, p |-> <<>>, k |-> One]
    ELSE LET N == IntOf(order)
             m == ChebZeroIndices(N)
             pm == arange(-N + 1, N, 2)
         IN  [status |-> "ok", branch |-> "general",
              z |-> [i \in 1..Len(m) |-> [m |-> m[i], angle |-> Mk(m[i], 2 * N, 0)]],
              p |-> [i \in 1..Len(pm) |-> [m |-> pm[i], angle |-> Mk(pm[i], 2 * N, 0)]],
              k |-> [rs |-> rs]]

\* _pow10m1(x) = 10 ** x - 1, for the integer x the drawn ripples give
_pow10m1(x) ==
    LET e == IntOf(x)
    IN  IF e >= 0 THEN FromInt(Pow10(e) - 1)
        ELSE Mk(1 - Pow10(-e), Pow10(-e), 0)

Tenth == <<1, 1, -1>>

\* ck1_sq = eps_sq / _pow10m1(0.1 * rs)
RippleRatio(rp, rs) == RDiv(_pow10m1(RMul(Tenth, rp)), _pow10m1(RMul(Tenth, rs)))

\* if ck1_sq == 0
IsDegenerateNever(ck1_sq) == FALSE

IsDegenerate(ck1_sq) == ck1_sq = Zero

\* what the part of ellipap after the ripple-ratio test ends with: it calls
\* _ellipdeg, the elliptic special functions and _arc_jac_sc1, which returns
\* or raises
GeneralOutcomes == {"ok", "LandenNotConverging", "PrecisionError"}

ellipap(order, rp, rs, outcome) ==
    IF BadOrder(order) THEN ProtoFailed("InvalidOrder")
    ELSE IF IntOf(order) = 0
    THEN [status |-> "ok", branch |-> "N0", z |-> <<>>, p |-> <<>>,
          k |-> [pow10 |-> RDiv(RNeg(rp), FromInt(20))]]
    ELSE IF IntOf(order) = 1
    THEN [status |-> "ok", branch |-> "N1", z |-> <<>>,
          p |-> <<[negsqrt |-> RDiv(One, _pow10m1(RMul(Tenth, rp)))]>>,
          k |-> [sqrt |-> RDiv(One, _pow10m1(RMul(Tenth, rp)))]]
    ELSE IF IsDegenerate(RippleRatio(rp, rs))
    THEN ProtoFailed("DegenerateSpecification")
    ELSE IF outcome = "ok"
    THEN [status |-> "ok", branch |-> "general", z |-> <<>>, p |-> <<>>,
          k |-> [ck1_sq |-> RippleRatio(rp, rs)]]
    ELSE ProtoFailed(outcome)

(***************************************************************************)
(* Inputs of the analog prototypes.                                        *)
(***************************************************************************)
OrderInputs == {FromInt(n) : n \in -1..MaxOrder} \cup {<<15, 1, -1>>}
RippleVals == {Zero, FromInt(10), FromInt(20)}

(***************************************************************************)
(* _arc_jac_sn: the descending Landen sequence.  The moduli k_n are        *)
(* finite-precision numbers: an integer count of units of 10^-Digits, each *)
(* operation rounded to the nearest unit, as each floating-point operation *)
(* rounds to the nearest representable number.  FNaN is not-a-number.      *)
(***************************************************************************)
\* decimal digits the arithmetic of the Landen sequence keeps
Digits == 3

Scale == Pow10(Digits)

\* 1.0
FOne == Scale

FNaN == -(Scale * Scale)

\* a / b rounded to the nearest integer, for a >= 0 and b > 0
RoundDiv(a, b) == (2 * a + b) \div (2 * b)

\* the largest r in lo..hi with r * r <= x
RECURSIVE SqrtSearch(_, _, _)
SqrtSearch(x, lo, hi) ==
    IF lo >= hi THEN lo
    ELSE LET mid == (lo + hi + 1) \div 2
         IN  IF mid * mid <= x THEN SqrtSearch(x, mid, hi)
             ELSE SqrtSearch(x, lo, mid - 1)

\* x ** 0.5, rounded; not-a-number for a negative x
FSqrt(x) ==
    IF x < 0 THEN FNaN
    ELSE LET r == SqrtSearch(x * Scale, 0, 2 * Scale)
         IN  IF x * Scale - r * r > r THEN r + 1 ELSE r

\* _complement(kx) = ((1 - kx) * (1 + kx)) ** 0.5
_complement(kx) ==
    IF kx = FNaN THEN FNaN
    ELSE FSqrt(RoundDiv((FOne - kx) * (FOne + kx), Scale))

\* (1 - k_p) / (1 + k_p)
LandenNext(k_) ==
    LET k_p == _complement(k_)
    IN  IF k_p = FNaN THEN FNaN
        ELSE RoundDiv((FOne - k_p) * Scale, FOne + k_p)

\* Maximum number of iterations in Landen transformation recursion
_ARC_JAC_SN_MAXITER == 10

Last(s) == s[Len(s)]

\* if niter > _ARC_JAC_SN_MAXITER: raise
ExceedsCap(niter) == niter > _ARC_JAC_SN_MAXITER

\* what happens once the cap is exceeded
CapOutcomeTruncate == "return"

CapOutcome == "raise"

\* the position of a call of _arc_jac_sn: pc is "loop" at the while test,
\* "return" at a return statement, "raise" at the raise statement; kind is
\* the return statement the call is heading for
Landen(pc, kind, ks, niter) == [pc |-> pc, kind |-> kind, ks |-> ks, niter |-> niter]

\* k = m ** 0.5 and the two early returns
LandenEnter(m) ==
    LET k == FSqrt(m)
    IN  IF k # FNaN /\ k > FOne THEN Landen("return", "nan", <<k>>, 0)
        ELSE IF k = FOne THEN Landen("return", "atanh", <<k>>, 0)
        ELSE Landen("loop", "landen", <<k>>, 0)

\* one pass of "while ks[-1] != 0": the test, and the body when it holds
LandenIter(st) ==
    IF Last(st.ks) = 0 THEN Landen("return", st.kind, st.ks, st.niter)
    ELSE LET niter == st.niter + 1
         IN  Landen(IF ExceedsCap(niter) THEN CapOutcome ELSE "loop",
                    st.kind, Append(st.ks, LandenNext(Last(st.ks))), niter)

\* the loop run to its end
RECURSIVE LandenRun(_)
LandenRun(st) == IF st.pc = "loop" THEN LandenRun(LandenIter(st)) ELSE st

\* The value _arc_jac_sn(j*w, m) returns, for a real w.  cupy.nan is the
\* float nan: its real part is nan, its imaginary part 0.0.  arctanh(j*w)
\* is j*atan(w).  The value after the loop is a product of complex
\* operations and of arcsin: its real part resid is what their rounding
\* leaves, its imaginary part is kept symbolic.
_arc_jac_sn(w, m, resid) ==
    LET st == LandenRun(LandenEnter(m))
    IN  IF st.pc = "raise"
        THEN [status |-> "LandenNotConverging", real |-> Zero, imag |-> "none"]
        ELSE IF st.kind = "nan"
        THEN [status |-> "ok", real |-> NaN, imag |-> "zero"]
        ELSE IF st.kind = "atanh"
        THEN [status |-> "ok", real |-> Zero, imag |-> "atan"]
        ELSE [status |-> "ok", real |-> resid, imag |-> "landen"]

\* x > y for reals; any comparison with not-a-number is false
RGt(x, y) == ~IsNaN(x) /\ ~IsNaN(y) /\ ~RLeq(x, y)

\* _arc_jac_sc1: if abs(zcomplex.real) > 1e-14: raise ValueError
_arc_jac_sc1(w, m, resid) ==
    LET zcomplex == _arc_jac_sn(w, m, resid)
    IN  IF zcomplex.status # "ok"
        THEN [status |-> zcomplex.status, value |-> "none", zcomplex |-> zcomplex]
        ELSE IF RGt(RAbs(zcomplex.real), Atol)
        THEN [status |-> "PrecisionError", value |-> "none", zcomplex |-> zcomplex]
        ELSE [status |-> "ok", value |-> zcomplex.imag, zcomplex |-> zcomplex]

(***************************************************************************)
(* Inputs of _arc_jac_sn and _arc_jac_sc1.                                 *)
(***************************************************************************)
\* how many moduli are drawn between 0 and 1
ModSteps == 20

\* moduli m: one negative, 0, the unit below 1, 1, above 1, and a grid
ModulusInputs ==
    {(j * Scale) \div ModSteps : j \in 0..ModSteps}
    \cup {-(Scale \div 2), 1, Scale - 1, Scale + 1, 2 * Scale}

ArgInputs == {One, Two}

\* real parts the arithmetic after the loop can leave: none, the tolerance,
\* twice the tolerance of either sign
ResidVals == {Zero, Atol, TwoTol, RNeg(TwoTol)}

None == [status |-> "none"]

Init ==
    /\ op = "init"
    /\ inp = None
    /\ out = None
    /\ prev = None

Normalize ==
    /\ op = "init"
    /\ \E b \in NumInputs, a \in DenInputs :
          /\ inp' = [b |-> b, a |-> a]
          /\ out' = normalize(b, a)
    /\ op' = "normalize"
    /\ prev' = None

TrimZeros ==
    /\ op = "init"
    /\ \E filt \in TrimInputs, trim \in SideInputs :
          /\ inp' = [filt |-> filt, trim |-> trim]
          /\ out' = _trim_zeros(filt, trim)
    /\ op' = "_trim_zeros"
    /\ prev' = None

\* normalize applied to its own output
Renormalize ==
    /\ op = "normalize"
    /\ out.status = "ok"
    /\ op' = "renormalize"
    /\ inp' = [b |-> out.num, a |-> Arr(1, <<out.den>>)]
    /\ out' = normalize(out.num, Arr(1, <<out.den>>))
    /\ prev' = out

RelativeDegree ==
    /\ op = "init"
    /\ \E z \in ZeroInputs, p \in PoleInputs :
          /\ inp' = [z |-> z, p |-> p]
          /\ out' = _relative_degree(z, p)
    /\ op' = "_relative_degree"
    /\ prev' = None

BilinearZpk ==
    /\ op = "init"
    /\ \E z \in ZeroInputs, p \in PoleInputs, k \in GainVals, fs \in FreqVals :
          /\ inp' = [z |-> z, p |-> p, k |-> k, fs |-> fs]
          /\ out' = bilinear_zpk(z, p, k, fs)
    /\ op' = "bilinear_zpk"
    /\ prev' = None

Lp2lpZpk ==
    /\ op = "init"
    /\ \E z \in ZeroInputs, p \in PoleInputs, k \in GainVals, wo \in FreqVals :
          /\ inp' = [z |-> z, p |-> p, k |-> k, wo |-> wo]
          /\ out' = lp2lp_zpk(z, p, k, wo)
    /\ op' = "lp2lp_zpk"
    /\ prev' = None

Lp2hpZpk ==
    /\ op = "init"
    /\ \E z \in ZeroInputs, p \in PoleInputs, k \in GainVals, wo \in FreqVals :
          /\ inp' = [z |-> z, p |-> p, k |-> k, wo |-> wo]
          /\ out' = lp2hp_zpk(z, p, k, wo)
    /\ op' = "lp2hp_zpk"
    /\ prev' = None

Lp2bpZpk ==
    /\ op = "init"
    /\ \E z \in ZeroInputs, p \in PoleInputs, k \in GainVals,
          wo \in FreqVals, bw \in FreqVals :
          /\ inp' = [z |-> z, p |-> p, k |-> k, wo |-> wo, bw |-> bw]
          /\ out' = lp2bp_zpk(z, p, k, wo, bw)
    /\ op' = "lp2bp_zpk"
    /\ prev' = None

Lp2bsZpk ==
    /\ op = "init"
    /\ \E z \in ZeroInputs, p \in PoleInputs, k \in GainVals,
          wo \in FreqVals, bw \in FreqVals :
          /\ inp' = [z |-> z, p |-> p, k |-> k, wo |-> wo, bw |-> bw]
          /\ out' = lp2bs_zpk(z, p, k, wo, bw)
    /\ op' = "lp2bs_zpk"
    /\ prev' = None

\* a (z, p, k) triple to which transforms are then applied
ChainStart ==
    /\ op = "init"
    /\ \E z \in SeqsFromZero(ChainVals, MaxZeros),
          p \in SeqsFromZero(ChainVals, MaxPoles) :
          out' = Zpk(z, p, One)
    /\ inp' = [depth |-> 0]
    /\ op' = "triple"
    /\ prev' = None

\* a triple that a further transform can be applied to
Chainable ==
    /\ op \in {"triple", "lp2lp_zpk", "lp2hp_zpk", "lp2bp_zpk", "lp2bs_zpk",
                "bilinear_zpk"}
    /\ "depth" \in DOMAIN inp
    /\ inp.depth < MaxChain
    /\ out.status = "ok"

ThenLp2lpZpk ==
    /\ Chainable
    /\ \E v \in SqrtVals :
          LET z == Received(out.z, v)
              p == Received(out.p, v)
          IN  /\ inp' = [z |-> z, p |-> p, k |-> out.k, wo |-> Two,
                         depth |-> inp.depth + 1]
              /\ out' = lp2lp_zpk(z, p, out.k, Two)
    /\ op' = "lp2lp_zpk"
    /\ prev' = out

ThenLp2hpZpk ==
    /\ Chainable
    /\ \E v \in SqrtVals :
          LET z == Received(out.z, v)
              p == Received(out.p, v)
          IN  /\ inp' = [z |-> z, p |-> p, k |-> out.k, wo |-> One,
                         depth |-> inp.depth + 1]
              /\ out' = lp2hp_zpk(z, p, out.k, One)
    /\ op' = "lp2hp_zpk"
    /\ prev' = out

ThenLp2bpZpk ==
    /\ Chainable
    /\ \E v \in SqrtVals :
          LET z == Received(out.z, v)
              p == Received(out.p, v)
          IN  /\ inp' = [z |-> z, p |-> p, k |-> out.k, wo |-> One, bw |-> Two,
                         depth |-> inp.depth + 1]
              /\ out' = lp2bp_zpk(z, p, out.k, One, Two)
    /\ op' = "lp2bp_zpk"
    /\ prev' = out

ThenLp2bsZpk ==
    /\ Chainable
    /\ \E v \in SqrtVals :
          LET z == Received(out.z, v)
              p == Received(out.p, v)
          IN  /\ inp' = [z |-> z, p |-> p, k |-> out.k, wo |-> One, bw |-> Two,
                         depth |-> inp.depth + 1]
              /\ out' = lp2bs_zpk(z, p, out.k, One, Two)
    /\ op' = "lp2bs_zpk"
    /\ prev' = out

ThenBilinearZpk ==
    /\ Chainable
    /\ \E v \in SqrtVals :
          LET z == Received(out.z, v)
              p == Received(out.p, v)
          IN  /\ inp' = [z |-> z, p |-> p, k |-> out.k, fs |-> Half,
                         depth |-> inp.depth + 1]
              /\ out' = bilinear_zpk(z, p, out.k, Half)
    /\ op' = "bilinear_zpk"
    /\ prev' = out

Bilinear ==
    /\ op = "init"
    /\ \E b \in NonzeroBaInputs, a \in BaInputs, fs \in RateVals :
          /\ inp' = [b |-> b, a |-> a, fs |-> fs]
          /\ out' = bilinear(b, a, fs)
    /\ op' = "bilinear"
    /\ prev' = None

Lp2hp ==
    /\ op = "init"
    /\ \E b \in NonzeroBaInputs, a \in MonicBaInputs, wo \in CutoffVals,
          bdtype \in DtypeVals, adtype \in DtypeVals :
          /\ inp' = [b |-> b, bdtype |-> bdtype, a |-> a, adtype |-> adtype, wo |-> wo]
          /\ out' = lp2hp(b, bdtype, a, adtype, wo)
    /\ op' = "lp2hp"
    /\ prev' = None

Lp2bp ==
    /\ op = "init"
    /\ \E b \in NonzeroBaInputs, a \in MonicBaInputs, f \in BandInputs :
          /\ inp' = [b |-> b, a |-> a, wo |-> f[1], bw |-> f[2]]
          /\ out' = lp2bp(b, a, f[1], f[2])
    /\ op' = "lp2bp"
    /\ prev' = None

Lp2bs ==
    /\ op = "init"
    /\ \E b \in NonzeroBaInputs, a \in MonicBaInputs, f \in BandInputs :
          /\ inp' = [b |-> b, a |-> a, wo |-> f[1], bw |-> f[2]]
          /\ out' = lp2bs(b, a, f[1], f[2])
    /\ op' = "lp2bs"
    /\ prev' = None

Buttap ==
    /\ op = "init"
    /\ \E N \in OrderInputs :
          /\ inp' = [N |-> N]
          /\ out' = buttap(N)
    /\ op' = "buttap"
    /\ prev' = None

Cheb2ap ==
    /\ op = "init"
    /\ \E N \in OrderInputs, rs \in RippleVals :
          /\ inp' = [N |-> N, rs |-> rs]
          /\ out' = cheb2ap(N, rs)
    /\ op' = "cheb2ap"
    /\ prev' = None

Ellipap ==
    /\ op = "init"
    /\ \E N \in OrderInputs, rp \in RippleVals, rs \in RippleVals,
          outcome \in GeneralOutcomes :
          /\ inp' = [N |-> N, rp |-> rp, rs |-> rs]
          /\ out' = ellipap(N, rp, rs, outcome)
    /\ op' = "ellipap"
    /\ prev' = None

\* a call of _arc_jac_sn arrives at its loop or at an early return
ArcJacSn ==
    /\ op = "init"
    /\ \E w \in ArgInputs, m \in ModulusInputs :
          /\ inp' = [w |-> w, m |-> m]
          /\ out' = LandenEnter(m)
    /\ op' = "_arc_jac_sn"
    /\ prev' = None

\* one pass of the while loop of _arc_jac_sn
LandenStep ==
    /\ op = "_arc_jac_sn"
    /\ out.pc = "loop"
    /\ out' = LandenIter(out)
    /\ prev' = out
    /\ UNCHANGED <<op, inp>>

ArcJacSc1 ==
    /\ op = "init"
    /\ \E w \in ArgInputs, m \in ModulusInputs, resid \in ResidVals :
          /\ inp' = [w |-> w, m |-> m, resid |-> resid]
          /\ out' = _arc_jac_sc1(w, m, resid)
    /\ op' = "_arc_jac_sc1"
    /\ prev' = None

\* calls of normalize
NextNormalize ==
    \/ Normalize
    \/ Renormalize

\* calls of _trim_zeros
NextTrim ==
    \/ TrimZeros

\* calls of _relative_degree and of the zpk transforms
NextZpk ==
    \/ RelativeDegree
    \/ BilinearZpk
    \/ Lp2lpZpk
    \/ Lp2hpZpk
    \/ Lp2bpZpk
    \/ Lp2bsZpk

\* zpk transforms applied to the output of the previous one
NextChain ==
    \/ ChainStart
    \/ ThenLp2lpZpk
    \/ ThenLp2hpZpk
    \/ ThenLp2bpZpk
    \/ ThenLp2bsZpk
    \/ ThenBilinearZpk

\* calls of the ba transforms
NextBa ==
    \/ Bilinear

\* calls of lp2hp
NextHp ==
    \/ Lp2hp

\* calls of the band transforms in ba form
NextBand ==
    \/ Lp2bp
    \/ Lp2bs

\* calls of the analog prototype generators
NextProto ==
    \/ Buttap
    \/ Cheb2ap
    \/ Ellipap

\* calls of the inverse Jacobian elliptic functions
NextEllip ==
    \/ ArcJacSn
    \/ LandenStep
    \/ ArcJacSc1

Next ==
    \/ NextNormalize
    \/ NextZpk
    \/ NextBa
    \/ NextProto
    \/ NextEllip
    \/ NextTrim
    \/ NextBand
    \/ NextChain
    \/ NextHp

Spec == Init /\ [][Next]_vars

SpecNormalize == Init /\ [][NextNormalize]_vars

SpecTrim == Init /\ [][NextTrim]_vars

SpecZpk == Init /\ [][NextZpk]_vars

SpecBa == Init /\ [][NextBa]_vars

SpecChain == Init /\ [][NextChain]_vars

SpecHp == Init /\ [][NextHp]_vars

SpecBand == Init /\ [][NextBand]_vars

SpecProto == Init /\ [][NextProto]_vars

\* a call of _arc_jac_sn that is in its loop goes on running
SpecEllip == Init /\ [][NextEllip]_vars /\ WF_vars(LandenStep)

(***************************************************************************)
(* Properties of normalize.                                                *)
(***************************************************************************)
IsNormalizeCall == op \in {"normalize", "renormalize"}

\* the denominator and the aligned numerator rows normalize was called with
InDen == Vec(atleast_1d(inp.a))
InRows == atleast_2d(_align_nums(inp.b)).v

\* index of the first nonzero coefficient of a sequence that has one
FirstNonzero(a) ==
    CHOOSE i \in 1..Len(a) : a[i] # Zero /\ \A j \in 1..(i - 1) : a[j] = Zero

\* C1: the returned denominator is the input denominator with only its
\* leading zeros removed, every remaining coefficient divided by the first
\* nonzero one; interior and trailing zeros stay in place.
C1_DenOnlyLeadingTrimmed ==
    (IsNormalizeCall /\ out.status = "ok") =>
        LET nz == FirstNonzero(InDen) - 1
            lead == InDen[nz + 1]
        IN  /\ Len(out.den) = Len(InDen) - nz
            /\ \A i \in 1..Len(out.den) :
                   i + nz <= Len(InDen) /\ RMul(out.den[i], lead) = InDen[i + nz]

HasNaN(row) == \E i \in 1..Len(row) : IsNaN(row[i])

\* C2: a call of normalize either fails with the shape error or returns a
\* non-empty denominator whose first coefficient is 1; no division by zero
\* and no index into an empty denominator happens, and an all-zero
\* denominator is rejected.
C2_LeadingOne ==
    IsNormalizeCall =>
        /\ out.status \in {"ok", "InvalidShape"}
        /\ out.status = "ok" =>
               /\ Len(out.den) >= 1
               /\ out.den[1] = One
               /\ ~HasNaN(out.den)
               /\ \A r \in 1..Len(out.num.v) : ~HasNaN(out.num.v[r])
        /\ (inp.a.rank <= 1 /\ \A i \in 1..Len(InDen) : InDen[i] = Zero) =>
               out.status = "InvalidShape"

C2_Witness ==
    /\ op = "normalize"
    /\ out.status = "ok"
    /\ Len(InDen) = 3
    /\ InDen[1] = Zero
    /\ InDen[2] = MinusTwo
    /\ out.den[1] = One

\* whether column c of the input numerator is within 1e-14 of zero once
\* divided by the leading denominator coefficient
NearZeroColumn(c) ==
    LET lead == InDen[FirstNonzero(InDen)]
    IN  \A r \in 1..Len(InRows) :
           RLeq(RAbs(InRows[r][c]), RMul(Atol, RAbs(lead)))

\* L: the number of consecutive near-zero columns from the most-significant end
LeadingNearZero ==
    Cardinality({c \in 1..NCols(InRows) : \A k \in 1..c : NearZeroColumn(k)})

ExampleB == Arr(1, <<<<Zero, Zero, One, Two>>>>)
ExampleA == Arr(1, <<<<One, One>>>>)

\* C3: the ill-conditioning warning is emitted iff L > 0; exactly
\* min(L, ncols-1) leading columns are dropped; at least one column is
\* returned; the kept columns are the input columns divided by the leading
\* denominator coefficient; normalize([0,0,1,2],[1,1]) warns and returns
\* the numerator [1,2].  (Numerators have at least one column.)
C3_LeadingColumns ==
    (IsNormalizeCall /\ out.status = "ok") =>
        LET L == LeadingNearZero
            ncols == NCols(InRows)
            drop == Min(L, ncols - 1)
            lead == InDen[FirstNonzero(InDen)]
        IN  /\ out.warned <=> L > 0
            /\ Len(out.num.v) = Len(InRows)
            /\ \A r \in 1..Len(InRows) :
                   /\ Len(out.num.v[r]) = ncols - drop
                   /\ Len(out.num.v[r]) >= 1
                   /\ \A i \in 1..(ncols - drop) :
                          RMul(out.num.v[r][i], lead) = InRows[r][i + drop]
            /\ (inp.b = ExampleB /\ inp.a = ExampleA) =>
                   out.warned /\ out.num = Arr(1, <<<<One, Two>>>>)

C3_Witness ==
    /\ op = "normalize"
    /\ inp.b = ExampleB
    /\ inp.a = ExampleA
    /\ out.status = "ok"
    /\ out.warned
    /\ out.num = Arr(1, <<<<One, Two>>>>)

\* C4: normalize applied to its own output succeeds and returns the same
\* numerator and the same denominator.
C4_Idempotent ==
    op = "renormalize" =>
        /\ out.status = "ok"
        /\ out.num = prev.num
        /\ out.den = prev.den

C4_Witness ==
    /\ op = "renormalize"
    /\ out.status = "ok"
    /\ prev.warned
    /\ Len(prev.den) >= 2
    /\ prev.den[2] \notin {Zero, One}

\* C13: _trim_zeros(seq, side) removes exactly the leading exact zeros when
\* side has 'f' and leaves them when it has not, removes exactly the
\* trailing exact zeros when side has 'b' and leaves them when it has not;
\* an all-zero sequence yields an empty result.
C13_TrimHonoursSide ==
    op = "_trim_zeros" =>
        LET front == IF "f" \in inp.trim THEN CountZerosFrom(inp.filt) ELSE 0
            back == IF "b" \in inp.trim
                    THEN CountZerosFrom(Reverse(inp.filt))
                    ELSE 0
        IN  out = SubSeq(inp.filt, front + 1, Len(inp.filt) - back)

(***************************************************************************)
(* Properties of the zpk transforms.                                       *)
(***************************************************************************)
ZpkOps == {"lp2lp_zpk", "lp2hp_zpk", "lp2bp_zpk", "lp2bs_zpk", "bilinear_zpk"}

\* C5: _relative_degree returns len(p) - len(z) when that is >= 0 and fails
\* otherwise; each of the five zpk transforms fails with the improper
\* transfer function error, returning no triple, when there are more zeros
\* than poles, and only then.
C5_RelativeDegreeChecked ==
    /\ op = "_relative_degree" =>
          IF Len(inp.p) - Len(inp.z) >= 0
          THEN out.status = "ok" /\ out.value = Len(inp.p) - Len(inp.z)
          ELSE out.status = "ImproperTransferFunction"
    /\ op \in ZpkOps =>
          IF Len(inp.z) > Len(inp.p)
          THEN /\ out.status = "ImproperTransferFunction"
               /\ out.z = <<>>
               /\ out.p = <<>>
          ELSE out.status = "ok"

C5_Witness ==
    /\ op = "lp2bs_zpk"
    /\ Len(inp.z) = 2
    /\ Len(inp.p) = 1
    /\ out.status = "ImproperTransferFunction"

\* C6 as stated: lp2lp_zpk(z, p, k, wo=1.0) returns the same zeros, poles
\* and gain for any input triple.
C6_IdentityAnyInput ==
    (op = "lp2lp_zpk" /\ inp.wo = One) =>
        /\ out.status = "ok"
        /\ out.z = inp.z
        /\ out.p = inp.p
        /\ out.k = inp.k

\* C6 amended: lp2lp_zpk(z, p, k, wo=1.0) returns the same zeros in the same
\* order, the same poles in the same order and the same gain for every
\* input triple with len(poles) >= len(zeros).
C6_IdentityProper ==
    (op = "lp2lp_zpk" /\ inp.wo = One /\ Len(inp.p) >= Len(inp.z)) =>
        /\ out.status = "ok"
        /\ out.z = inp.z
        /\ out.p = inp.p
        /\ out.k = inp.k

C6_Witness ==
    /\ op = "lp2lp_zpk"
    /\ inp.wo = One
    /\ Len(inp.z) = 1
    /\ Len(inp.p) = 2
    /\ inp.k = MinusTwo
    /\ out.status = "ok"
    /\ out.k = MinusTwo

\* w is the Tustin image of r: w * (fs2 - r) = fs2 + r (not-a-number /
\* infinity when r = fs2)
IsTustinImage(w, r, fs2) ==
    /\ w.sgn = 0
    /\ IF r.base = CReal(fs2)
       THEN w.base = CNaN
       ELSE CMul(w.base, CSub(CReal(fs2), r.base)) = CAdd(CReal(fs2), r.base)

\* C7: for len(poles) >= len(zeros), bilinear_zpk returns len(poles) poles,
\* the Tustin image of each input pole in order, and len(poles) zeros: the
\* Tustin images of the input zeros in order followed by
\* len(poles) - len(zeros) entries equal to -1; no pole is appended.
C7_BilinearZpkShape ==
    (op = "bilinear_zpk" /\ Len(inp.p) >= Len(inp.z)) =>
        LET fs2 == RAdd(inp.fs, inp.fs)
        IN  /\ out.status = "ok"
            /\ Len(out.p) = Len(inp.p)
            /\ Len(out.z) = Len(inp.p)
            /\ \A i \in 1..Len(inp.p) : IsTustinImage(out.p[i], inp.p[i], fs2)
            /\ \A i \in 1..Len(inp.z) : IsTustinImage(out.z[i], inp.z[i], fs2)
            /\ \A i \in (Len(inp.z) + 1)..Len(out.z) :
                   out.z[i] = Plain(<<FromInt(-1), Zero>>)

C7_Witness ==
    /\ op = "bilinear_zpk"
    /\ Len(inp.z) = 1
    /\ Len(inp.p) = 2
    /\ inp.z[1] = Plain(<<RNeg(One), One>>)
    /\ out.status = "ok"
    /\ Len(out.z) = 2
    /\ out.z[2] = Plain(<<FromInt(-1), Zero>>)

\* C16: a zpk transform applied to the output of a previous one, or to a
\* first triple, with len(poles) >= len(zeros): the relative-degree check
\* does not fail and the output has len(poles) >= len(zeros); lp2lp_zpk
\* keeps both counts; lp2bp_zpk returns 2*len(p) poles and
\* 2*len(z) + degree zeros, the same relative degree; lp2hp_zpk and
\* bilinear_zpk return len(p) poles and len(p) zeros; lp2bs_zpk returns
\* 2*len(p) poles and 2*len(p) zeros.
C16_ClosedUnderComposition ==
    (op \in ZpkOps /\ prev.status = "ok" /\ Len(prev.p) >= Len(prev.z)) =>
        LET nz == Len(inp.z)
            np == Len(inp.p)
            degree == np - nz
        IN  /\ nz = Len(prev.z)
            /\ np = Len(prev.p)
            /\ out.status = "ok"
            /\ Len(out.p) >= Len(out.z)
            /\ op = "lp2lp_zpk" => Len(out.z) = nz /\ Len(out.p) = np
            /\ op = "lp2bp_zpk" =>
                   /\ Len(out.p) = 2 * np
                   /\ Len(out.z) = 2 * nz + degree
                   /\ Len(out.p) - Len(out.z) = degree
            /\ op \in {"lp2hp_zpk", "bilinear_zpk"} =>
                   Len(out.z) = np /\ Len(out.p) = np
            /\ op = "lp2bs_zpk" => Len(out.z) = 2 * np /\ Len(out.p) = 2 * np

\* lp2bs_zpk applied to the output of lp2bp_zpk applied to a triple with one
\* zero and two poles
C16_Witness ==
    /\ op = "lp2bs_zpk"
    /\ inp.depth = 2
    /\ Len(prev.z) = 3
    /\ Len(prev.p) = 4
    /\ out.status = "ok"
    /\ Len(out.z) = 8
    /\ Len(out.p) = 8

(***************************************************************************)
(* Properties of bilinear.  Polynomials are coefficient sequences in       *)
(* descending powers, multiplied by ordinary convolution.                  *)
(***************************************************************************)
PolyMul(p0, q0) ==
    CHOOSE r \in {[n \in 1..(Len(p) + Len(q) - 1) |->
                     Sum([i \in 1..Len(p) |->
                             IF n + 1 - i \in 1..Len(q)
                             THEN RMul(p[i], q[n + 1 - i])
                             ELSE Zero])] :
                  p \in {p0}, q \in {q0}} : TRUE

RECURSIVE PolyPow(_, _)
PolyPow(p, k) == IF k <= 0 THEN <<One>> ELSE PolyMul(p, PolyPow(p, k - 1))

PolyScale(p0, x0) ==
    CHOOSE r \in {[i \in 1..Len(p) |-> RMul(p[i], x)] : p \in {p0}, x \in {x0}} : TRUE

PolyAdd(p0, q0) ==
    CHOOSE r \in {[i \in 1..Len(p) |-> RAdd(p[i], q[i])] : p \in {p0}, q \in {q0}} : TRUE

\* sum over i = lo..N of c_i (2fs)^i (z-1)^i (z+1)^(M-i), c_i the coefficient of s^i
RECURSIVE TustinPoly(_, _, _, _)
TustinPoly(c, i, M, fs2) ==
    LET N == Len(c) - 1
        term == PolyScale(PolyMul(PolyPow(<<One, FromInt(-1)>>, i),
                                  PolyPow(<<One, One>>, M - i)),
                          RMul(c[N + 1 - i], RPow(fs2, i)))
    IN  IF i = N THEN term ELSE PolyAdd(term, TustinPoly(c, i + 1, M, fs2))

\* C8: the sequences bilinear hands to normalize have length M + 1 and are
\* the coefficients of sum_i b_i (2fs)^i (z-1)^i (z+1)^(M-i) and of
\* sum_i a_i (2fs)^i (z-1)^i (z+1)^(M-i); bilinear([1],[1,1],fs=1) gives
\* [1,1] and [3,-1] before normalization and b=[1/3,1/3], a=[1,-1/3] after.
C8_BilinearPolynomial ==
    op = "bilinear" =>
        LET M == Max(Len(inp.b), Len(inp.a)) - 1
            fs2 == RAdd(inp.fs, inp.fs)
        IN  /\ Len(out.bprime) = M + 1
            /\ Len(out.aprime) = M + 1
            /\ out.bprime = TustinPoly(inp.b, 0, M, fs2)
            /\ out.aprime = TustinPoly(inp.a, 0, M, fs2)
            /\ (inp.b = <<One>> /\ inp.a = <<One, One>> /\ inp.fs = One) =>
                   /\ out.bprime = <<One, One>>
                   /\ out.aprime = <<Three, FromInt(-1)>>
                   /\ out.result.status = "ok"
                   /\ out.result.num = Arr(1, <<<<<<1, 3, 0>>, <<1, 3, 0>>>>>>)
                   /\ out.result.den = <<One, <<-1, 3, 0>>>>

C8_Witness ==
    /\ op = "bilinear"
    /\ inp.b = <<One>>
    /\ inp.a = <<One, One>>
    /\ inp.fs = One
    /\ out.aprime = <<Three, FromInt(-1)>>
    /\ out.result.den = <<One, <<-1, 3, 0>>>>

\* p * s^k
PolyShift(p, k) == p \o Zeros(k)

\* p as a polynomial of degree len - 1
PolyPad(p, len) == Zeros(len - Len(p)) \o p

\* s^2 + wo^2
Quadratic(wo) == <<One, Zero, RMul(wo, wo)>>

\* sum over i = lo..N of c_i (s^2+wo^2)^i s^(M-i) / bw^i, c_i the coefficient of s^i
RECURSIVE BandPassPoly(_, _, _, _, _)
BandPassPoly(c, i, M, wo, bw) ==
    LET N == Len(c) - 1
        term == PolyPad(PolyScale(PolyShift(PolyPow(Quadratic(wo), i), M - i),
                                  RDiv(c[N + 1 - i], RPow(bw, i))),
                        N + M + 1)
    IN  IF i = N THEN term ELSE PolyAdd(term, BandPassPoly(c, i + 1, M, wo, bw))

\* sum over i = lo..N of c_i (s*bw)^i (s^2+wo^2)^(M-i)
RECURSIVE BandStopPoly(_, _, _, _, _)
BandStopPoly(c, i, M, wo, bw) ==
    LET N == Len(c) - 1
        term == PolyPad(PolyScale(PolyShift(PolyPow(Quadratic(wo), M - i), i),
                                  RMul(c[N + 1 - i], RPow(bw, i))),
                        2 * M + 1)
    IN  IF i = N THEN term ELSE PolyAdd(term, BandStopPoly(c, i + 1, M, wo, bw))

AllOnes(s) == \A i \in 1..Len(s) : s[i] = 1

\* C14: with N and D the degrees of b and a and M = max(N, D), the
\* sequences lp2bp hands to normalize are s^M * b((s^2+wo^2)/(s*bw)), of
\* length N+M+1, and s^M * a((s^2+wo^2)/(s*bw)), of length D+M+1; those of
\* lp2bs are (s^2+wo^2)^M * b(s*bw/(s^2+wo^2)) and the same of a, both of
\* length 2M+1; all in descending powers of s, every position written
\* exactly once.
C14_BandPolynomials ==
    LET N == Len(inp.b) - 1
        D == Len(inp.a) - 1
        M == Max(N, D)
    IN  /\ op = "lp2bp" =>
              /\ Len(out.bprime) = N + M + 1
              /\ Len(out.aprime) = D + M + 1
              /\ out.bprime = BandPassPoly(inp.b, 0, M, inp.wo, inp.bw)
              /\ out.aprime = BandPassPoly(inp.a, 0, M, inp.wo, inp.bw)
              /\ AllOnes(out.bwrites) /\ AllOnes(out.awrites)
        /\ op = "lp2bs" =>
              /\ Len(out.bprime) = 2 * M + 1
              /\ Len(out.aprime) = 2 * M + 1
              /\ out.bprime = BandStopPoly(inp.b, 0, M, inp.wo, inp.bw)
              /\ out.aprime = BandStopPoly(inp.a, 0, M, inp.wo, inp.bw)
              /\ AllOnes(out.bwrites) /\ AllOnes(out.awrites)

\* lp2bp([1], [1, 1], wo=2, bw=1): b becomes M = 1 times s, i.e. [1, 0],
\* and a becomes s^2 + s + 4
C14_Witness ==
    /\ op = "lp2bp"
    /\ inp.b = <<One>>
    /\ inp.a = <<One, One>>
    /\ inp.wo = Two
    /\ inp.bw = One
    /\ out.bprime = <<One, Zero>>
    /\ out.aprime = <<One, One, FromInt(4)>>

\* entry i of seq is the i-th coefficient of the reversed c times wo^i
\* (i from 0) below the length of c, and 0 from there on
IsReversedScaled(seq, c, wo) ==
    \A i \in 1..Len(seq) :
        IF i <= Len(c) THEN seq[i] = RMul(c[Len(c) + 1 - i], RPow(wo, i - 1))
        ELSE seq[i] = Zero

\* C17: the two sequences lp2hp hands to normalize have length max(n, d);
\* each holds the reversed polynomial's coefficients times ascending powers
\* of wo, fractional parts kept, then zeros; whatever the dtype of the
\* input arrays, for the shorter and for the longer polynomial.
C17_HighpassSequences ==
    op = "lp2hp" =>
        /\ Len(out.outb) = Max(Len(inp.b), Len(inp.a))
        /\ Len(out.outa) = Max(Len(inp.b), Len(inp.a))
        /\ IsReversedScaled(out.outb, inp.b, inp.wo)
        /\ IsReversedScaled(out.outa, inp.a, inp.wo)

(***************************************************************************)
(* Properties of the analog prototypes.                                    *)
(***************************************************************************)
IsOrder(N) == N[2] = 1 /\ N[3] >= 0 /\ N[1] >= 0

\* C9: for every integer N >= 1, buttap(N) returns no zeros, gain 1 and N
\* poles whose indices are -N+1, -N+3, ..., N-1: N of them, closed under
\* negation, 0 among them exactly when N is odd, each with |m| < N, so each
\* pole angle m/(2N) * pi lies strictly inside (-pi/2, pi/2).
C9_ButtapIndices ==
    (op = "buttap" /\ IsOrder(inp.N) /\ IntOf(inp.N) >= 1) =>
        LET N == IntOf(inp.N)
            ms == {out.p[i].m : i \in 1..Len(out.p)}
        IN  /\ out.status = "ok"
            /\ out.z = <<>>
            /\ out.k = One
            /\ Len(out.p) = N
            /\ Cardinality(ms) = N
            /\ \A i \in 1..N : out.p[i].m = -N + 1 + 2 * (i - 1)
            /\ \A m \in ms : -m \in ms
            /\ (0 \in ms) <=> (N % 2 = 1)
            /\ \A i \in 1..N :
                  /\ Abs(out.p[i].m) < N
                  /\ RMul(out.p[i].angle, FromInt(2 * N)) = FromInt(out.p[i].m)
                  /\ RLeq(RAbs(out.p[i].angle), Half)
                  /\ RAbs(out.p[i].angle) # Half

C9_Witness ==
    /\ op = "buttap"
    /\ inp.N = FromInt(5)
    /\ out.status = "ok"
    /\ Len(out.p) = 5
    /\ out.p[3].m = 0
    /\ out.p[1].m = -4

\* C10 as stated: for every nonnegative integer order N, ellipap fails with
\* the degenerate-specification error whenever the ripple ratio ck1_sq is 0.
C10_DegenerateFailsForEveryOrder ==
    (op = "ellipap" /\ IsOrder(inp.N) /\ RippleRatio(inp.rp, inp.rs) = Zero) =>
        out.status = "DegenerateSpecification"

\* C10 amended: for every integer order N >= 2, ellipap fails with the
\* degenerate-specification error whenever the ripple ratio ck1_sq is 0 and
\* returns no triple; for N = 0 and N = 1 it returns a triple without
\* computing the ripple ratio.
C10_DegenerateFailsFromOrderTwo ==
    (op = "ellipap" /\ IsOrder(inp.N)) =>
        /\ (IntOf(inp.N) >= 2 /\ RippleRatio(inp.rp, inp.rs) = Zero) =>
               /\ out.status = "DegenerateSpecification"
               /\ out.p = <<>>
               /\ out.z = <<>>
        /\ IntOf(inp.N) <= 1 => out.status = "ok"

C10_Witness ==
    /\ op = "ellipap"
    /\ inp.N = FromInt(3)
    /\ inp.rp = Zero
    /\ inp.rs = FromInt(20)
    /\ out.status = "DegenerateSpecification"

\* C15: for every integer N >= 1, the zero index set of cheb2ap does not
\* contain 0 (each angle m*pi/(2N) is nonzero and strictly inside
\* (-pi/2, pi/2), so its sine is not 0), is closed under negation, and has
\* N elements for even N and N-1 for odd N; the pole index set has N
\* elements; so cheb2ap returns N poles and N or N-1 zeros.
C15_ChebIndexSets ==
    (op = "cheb2ap" /\ IsOrder(inp.N) /\ IntOf(inp.N) >= 1) =>
        LET N == IntOf(inp.N)
            zs == {out.z[i].m : i \in 1..Len(out.z)}
            ps == {out.p[i].m : i \in 1..Len(out.p)}
            nz == IF N % 2 = 0 THEN N ELSE N - 1
        IN  /\ out.status = "ok"
            /\ 0 \notin zs
            /\ \A m \in zs : -m \in zs
            /\ Len(out.z) = nz
            /\ Cardinality(zs) = nz
            /\ Len(out.p) = N
            /\ Cardinality(ps) = N
            /\ \A i \in 1..Len(out.z) :
                   /\ out.z[i].angle # Zero
                   /\ RMul(out.z[i].angle, FromInt(2 * N)) = FromInt(out.z[i].m)
                   /\ RLeq(RAbs(out.z[i].angle), Half)
                   /\ RAbs(out.z[i].angle) # Half

C15_Witness ==
    /\ op = "cheb2ap"
    /\ inp.N = FromInt(5)
    /\ out.status = "ok"
    /\ Len(out.z) = 4
    /\ Len(out.p) = 5
    /\ out.z[2].m = -2
    /\ out.z[3].m = 2

(***************************************************************************)
(* Properties of the inverse Jacobian elliptic functions.                  *)
(***************************************************************************)
\* the modulus k = m ** 0.5 of the call
ModulusK == FSqrt(inp.m)

LandenInv ==
    op = "_arc_jac_sn" =>
        /\ out.niter <= _ARC_JAC_SN_MAXITER + 1
        /\ Len(out.ks) = out.niter + 1
        /\ out.ks[1] = ModulusK
        /\ (out.pc = "return" /\ out.kind = "landen") =>
               /\ out.niter <= _ARC_JAC_SN_MAXITER
               /\ Last(out.ks) = 0
               /\ \A i \in 1..out.niter : out.ks[i] # 0
        /\ out.pc = "raise" =>
               /\ out.niter = _ARC_JAC_SN_MAXITER + 1
               /\ \A i \in 1..(_ARC_JAC_SN_MAXITER + 1) : out.ks[i] # 0
        /\ (out.pc = "loop" /\ out.niter = _ARC_JAC_SN_MAXITER) =>
               Last(out.ks) = 0 \/ LandenIter(out).pc = "raise"
        /\ (ModulusK # FNaN /\ ModulusK > FOne) =>
               out = Landen("return", "nan", <<ModulusK>>, 0)
        /\ ModulusK = FOne =>
               /\ out = Landen("return", "atanh", <<ModulusK>>, 0)
               /\ LandenNext(FOne) = FOne
        /\ out.kind = "landen" => \A i \in 1..Len(out.ks) : out.ks[i] # FOne

\* C11: a call of _arc_jac_sn ends: its loop makes at most 11 passes; it
\* returns from the loop only when k_n reached exactly 0 within 10 passes,
\* and otherwise raises the convergence error at the 11th pass, never
\* going on with a truncated sequence; for k > 1 and k == 1 the loop is not
\* entered (not-a-number and atanh(w) are returned), so k == 1, where the
\* recursion stays at 1, never reaches the loop.
C11_LandenTerminates ==
    /\ []LandenInv
    /\ (op = "_arc_jac_sn") ~> (op = "_arc_jac_sn" /\ out.pc \in {"return", "raise"})

C11_Witness ==
    /\ op = "_arc_jac_sn"
    /\ inp.m = Scale - 1
    /\ out.pc = "return"
    /\ out.kind = "landen"
    /\ out.niter >= 5
    /\ Last(out.ks) = 0

\* a call whose sequence never reaches 0 raises at the 11th pass
C11_RaiseReached ==
    /\ op = "_arc_jac_sn"
    /\ out.pc = "raise"
    /\ out.niter = _ARC_JAC_SN_MAXITER + 1

\* C12: _arc_jac_sc1 returns a value only when the real part of what
\* _arc_jac_sn(j*w, m) returned has magnitude <= 1e-14; for every other
\* value _arc_jac_sn returns, the not-a-number of m > 1 included, it fails
\* with the precision error.
C12_PrecisionChecked ==
    (op = "_arc_jac_sc1" /\ out.zcomplex.status = "ok") =>
        IF RLeq(RAbs(out.zcomplex.real), Atol)
        THEN out.status = "ok"
        ELSE out.status = "PrecisionError"

====
